---- MODULE Spec2Model ----
(***************************************************************************)
(* Model of the trading bot's orchestration loop (loop, part_000:938-1074),*)
(* of its position sizer (adjustTradeForPortfolio, part_000:622-651) and   *)
(* of its startup and schedule (mainLoop, part_000:1079-1091).             *)
(*                                                                         *)
(* Spec follows one activation of loop() step by step, SpecSizer applies   *)
(* the sizer to drawn arguments, and SpecSchedule follows startup, the     *)
(* timer and all activations of loop() in flight.  SpecValuation runs the  *)
(* valuation of loop() over wallets of every kind, SpecDecimals resolves   *)
(* the decimals of one holding, SpecTopTokens calls getTopTokens in each   *)
(* source mode, SpecSwaps follows an activation together with the swap     *)
(* transactions it started, and SpecRatios adds up the shipped ratios.     *)
(*                                                                         *)
(* Amounts of ADA are integers counting hundredths of an ADA (1 ADA = 100),*)
(* confidences are integers counting hundredths (0.6 = 60) and the target  *)
(* ratios are integers counting hundredths (0.15 = 15).  All totals the    *)
(* model draws are multiples of 0.20 ADA, so ratio * total is exact.  Only *)
(* SpecRatios holds the ratios as the doubles they are.                    *)
(***************************************************************************)
EXTENDS Integers, Sequences, FiniteSets, Bags, TLC

(***************************************************************************)
(* JavaScript values.  The decision object comes out of JSON.parse without *)
(* any validation (part_000:593), so its fields are arbitrary JSON values. *)
(***************************************************************************)

\* n ADA in the model's unit, hundredths of an ADA
Ada(n) == n * 100

\* The number NaN (Math.max of a non-numeric string, part_000:1049).
NaN == -1000000000

Undefined == [t |-> "undefined", n |-> 0, s |-> ""]

Num(x) == [t |-> "number", n |-> x, s |-> ""]

Str(x) == [t |-> "string", n |-> 0, s |-> x]

Bool(b) == [t |-> "boolean", n |-> IF b THEN 1 ELSE 0, s |-> ""]

\* a === b
StrictEq(a, b) == a = b /\ ~(a.t = "number" /\ a.n = NaN)

\* ToNumber(v); the strings of the model are "" or non-numeric words.
ToNumber(v) ==
  CASE v.t = "number" -> v.n
    [] v.t = "boolean" -> v.n
    [] v.t = "string" -> IF v.s = "" THEN 0 ELSE NaN
    [] OTHER -> NaN

\* ToBoolean(v), as used by || and if
Truthy(v) ==
  CASE v.t = "number" -> v.n # 0 /\ v.n # NaN
    [] v.t = "boolean" -> v.n = 1
    [] v.t = "string" -> v.s # ""
    [] OTHER -> FALSE

\* a < b on numbers: false when either side is NaN
Lt(a, b) == a # NaN /\ b # NaN /\ a < b

\* a <= b on numbers: false when either side is NaN
Le(a, b) == a # NaN /\ b # NaN /\ a <= b

\* Math.max(a, b)
MathMax(a, b) == IF a = NaN \/ b = NaN THEN NaN ELSE IF a >= b THEN a ELSE b

\* Math.min(a, b)
MathMin(a, b) == IF a = NaN \/ b = NaN THEN NaN ELSE IF a <= b THEN a ELSE b

\* a - b on numbers
Minus(a, b) == IF a = NaN \/ b = NaN THEN NaN ELSE a - b

\* a + b
Plus(a, b) == IF a = NaN \/ b = NaN THEN NaN ELSE a + b

(***************************************************************************)
(* The ratios as the doubles they are.  A JavaScript number is an IEEE 754  *)
(* double: 53 significant bits, every result rounded to the nearest double, *)
(* ties to the even one.  A double d with 2^-7 <= d < 2^7 (or d = 0) is     *)
(* held exactly, as the integer d * 2^60 written in five limbs of 15 bits,  *)
(* lowest limb first.                                                       *)
(***************************************************************************)

\* the limb of 15 bits a number leaves, and what it carries to the next limb
Limb(n) == n % 32768

Carry(n) == n \div 32768

\* the doubles 0 and 1
DoubleZero == << 0, 0, 0, 0, 0 >>

DoubleOne == << 0, 0, 0, 0, 1 >>

\* the number of bits of n: 0 for 0, 1 for 1, 2 for 2 and 3, ...
RECURSIVE BitLength(_)
BitLength(n) == IF n = 0 THEN 0 ELSE 1 + BitLength(n \div 2)

\* the highest limb of a that is not 0 (0 when a is 0)
TopLimb(a) ==
  IF \A i \in 1..5 : a[i] = 0 THEN 0
  ELSE CHOOSE i \in 1..5 : a[i] # 0 /\ \A j \in (i + 1)..5 : a[j] = 0

\* the number of significant bits of a
SignificantBits(a) ==
  IF TopLimb(a) = 0 THEN 0 ELSE (TopLimb(a) - 1) * 15 + BitLength(a[TopLimb(a)])

\* a + b without rounding, limb by limb from limb i on
RECURSIVE AddLimbs(_, _, _, _)
AddLimbs(a, b, i, carry) ==
  IF i > 5 THEN << >>
  ELSE << Limb(a[i] + b[i] + carry) >> \o AddLimbs(a, b, i + 1, Carry(a[i] + b[i] + carry))

\* a rounded to the nearest double, ties to even; sticky says that the exact value
\* lies above a by less than 2^-60
RoundToDouble(a, sticky) ==
  LET d    == SignificantBits(a) - 53
      unit == 2 ^ d
      r    == a[1] % unit
      odd  == (a[1] \div unit) % 2 = 1
      down == [a EXCEPT ![1] = a[1] - r]
      up   == \/ 2 * r > unit
              \/ 2 * r = unit /\ (sticky \/ odd)
  IN  IF d <= 0 THEN a
      ELSE IF up THEN AddLimbs(down, << unit, 0, 0, 0, 0 >>, 1, 0)
      ELSE down

\* a + b of JavaScript
DoubleAdd(a, b) == RoundToDouble(AddLimbs(a, b, 1, 0), FALSE)

\* k * 2^60 divided by 100, limb by limb from limb i down: << quotient, remainder >>
RECURSIVE DivideBy100(_, _, _)
DivideBy100(k, i, rem) ==
  LET cur == rem * 32768 + (IF i = 5 THEN k ELSE 0)
  IN  IF i = 0 THEN << << >>, rem >>
      ELSE LET rest == DivideBy100(k, i - 1, cur % 100)
           IN  << rest[1] \o << cur \div 100 >>, rest[2] >>

\* the double a decimal literal of k hundredths denotes: 0.15 is ToDouble(15)
ToDouble(k) ==
  LET q == DivideBy100(k, 5, 0)
  IN  RoundToDouble(q[1], q[2] # 0)

(***************************************************************************)
(* Configuration: src/config/portfolio-settings.ts                         *)
(***************************************************************************)
Category == {"ada", "meme_coins", "ai", "gaming", "stable", "defi", "depin", "other"}

\* TARGET_RATIOS, in hundredths
TARGET_RATIOS ==
  [ada |-> 20, stable |-> 15, defi |-> 15, ai |-> 15,
   gaming |-> 10, meme_coins |-> 10, depin |-> 10, other |-> 5]

\* the Category of src/config/portfolio-settings.template.ts
TemplateCategory == {"stable", "defi", "governance", "other"}

\* the template's TARGET_RATIOS with ratios that sum to 1.10
TemplateRatiosOver ==
  [stable |-> 40, defi |-> 30, governance |-> 20, other |-> 20]

\* TARGET_RATIOS of src/config/portfolio-settings.template.ts, in hundredths
TEMPLATE_TARGET_RATIOS ==
  [stable |-> 40, defi |-> 30, governance |-> 20, other |-> 10]

\* TOKEN_POLICIES of portfolio-settings.ts, as far as classifyToken reads it
TOKEN_POLICIES == [stable |-> {"policy1", "policy2"}, defi |-> {"policy3"}]

\* unit.includes(id) for the units of the model: none but "policy1_STBL" contains a
\* policy id of TOKEN_POLICIES
Includes(unit, id) == unit = "policy1_STBL" /\ id = "policy1"

\* classifyToken(unit) of portfolio-settings.ts
classifyToken(unit) ==
  IF \E id \in TOKEN_POLICIES.stable : Includes(unit, id) THEN "stable"
  ELSE IF \E id \in TOKEN_POLICIES.defi : Includes(unit, id) THEN "defi"
  ELSE "other"

\* targetRatios[category] * totalAdaValue
RatioTimes(ratio, total) == IF total = NaN THEN NaN ELSE (ratio * total) \div 100

\* the 2 ADA kept back for fees (userAdaBalance - 2)
FeeReserve == 200

\* finalAda < 1 and finalAmount < 1
DustThreshold == 100

(***************************************************************************)
(* 7) Portfolio logic: adjustTradeForPortfolio                             *)
(***************************************************************************)
\* adjustTradeForPortfolio with the buy not capped by the ADA balance
adjustTradeNoBalanceClamp(direction, category, recommendedAda, totalAdaValue, currentCategoryValue, userAdaBalance) ==
  IF StrictEq(direction, Str("buy"))
  THEN LET roomLeft == Minus(RatioTimes(TARGET_RATIOS[category], totalAdaValue), currentCategoryValue)
           finalAda == MathMin(recommendedAda, roomLeft)
       IN  IF Le(roomLeft, 0) THEN 0
           ELSE IF Lt(finalAda, DustThreshold) THEN 0
           ELSE finalAda
  ELSE recommendedAda

\* adjustTradeForPortfolio with the buy not capped by the room left in the category
adjustTradeIgnoresRatio(direction, category, recommendedAda, totalAdaValue, currentCategoryValue, userAdaBalance) ==
  IF StrictEq(direction, Str("buy"))
  THEN LET finalAda == MathMin(recommendedAda, MathMax(0, Minus(userAdaBalance, FeeReserve)))
       IN  IF Lt(finalAda, DustThreshold) THEN 0 ELSE finalAda
  ELSE recommendedAda

\* adjustTradeForPortfolio without the finalAda < 1 test
adjustTradeNoDust(direction, category, recommendedAda, totalAdaValue, currentCategoryValue, userAdaBalance) ==
  IF StrictEq(direction, Str("buy"))
  THEN LET roomLeft == Minus(RatioTimes(TARGET_RATIOS[category], totalAdaValue), currentCategoryValue)
           maxUserCanSpend == MathMax(0, Minus(userAdaBalance, FeeReserve))
       IN  IF Le(roomLeft, 0) THEN 0
           ELSE MathMin(MathMin(recommendedAda, roomLeft), maxUserCanSpend)
  ELSE recommendedAda

\* adjustTradeForPortfolio with the sell capped by the ADA balance like a buy
adjustTradeSellClamped(direction, category, recommendedAda, totalAdaValue, currentCategoryValue, userAdaBalance) ==
  MathMin(recommendedAda, MathMax(0, Minus(userAdaBalance, FeeReserve)))

adjustTradeForPortfolio(direction, category, recommendedAda, totalAdaValue, currentCategoryValue, userAdaBalance) ==
  IF StrictEq(direction, Str("buy"))
  THEN LET maxAllowedCategory == RatioTimes(TARGET_RATIOS[category], totalAdaValue)
           roomLeft == Minus(maxAllowedCategory, currentCategoryValue)
           maxUserCanSpend == MathMax(0, Minus(userAdaBalance, FeeReserve))
           finalAda == MathMin(MathMin(recommendedAda, roomLeft), maxUserCanSpend)
       IN  IF Le(roomLeft, 0) THEN 0
           ELSE IF Lt(finalAda, DustThreshold) THEN 0
           ELSE finalAda
  ELSE recommendedAda

(***************************************************************************)
(* Token list: token-lists.ts (part_001:808-935)                           *)
(***************************************************************************)

\* One TokenConfig; the optional numeric fields are JavaScript values.
TokenConfig(unit, ticker, category) ==
  [unit |-> unit, ticker |-> ticker, category |-> category,
   decimals |-> Undefined, minTradeSize |-> Num(Ada(10)), maxTradeSize |-> Num(Ada(200))]

\* TRADING_TOKENS; the 56+ hex digit units are written unit_<TICKER>.
TRADING_TOKENS ==
  << TokenConfig("unit_TALOS", "TALOS", "ai"),
     TokenConfig("unit_RAD", "RAD", "gaming"),
     TokenConfig("unit_DJED", "DJED", "stable"),
     TokenConfig("unit_WMTX", "WMTX", "depin"),
     TokenConfig("unit_LQ", "LQ", "defi"),
     TokenConfig("unit_SNEK", "SNEK", "meme_coins") >>

getAllTradingTokens == TRADING_TOKENS

\* Array.prototype.find over TRADING_TOKENS: the index of the first entry whose
\* field has the value, 0 when there is none (find returns undefined).
FindToken(field, value) ==
  LET hits == {i \in 1..Len(TRADING_TOKENS) : TRADING_TOKENS[i][field] = value}
  IN  IF hits = {} THEN 0 ELSE CHOOSE i \in hits : \A j \in hits : i <= j

\* getTokenConfig(unit): token.unit === unit
getTokenConfig(unit) == FindToken("unit", unit)

\* getTokenConfigByTicker(ticker): token.ticker === ticker
getTokenConfigByTicker(ticker) == FindToken("ticker", ticker)

\* getTokenInfo(unit): looks the unit up BY TICKER, else builds a basic config
getTokenInfo(unit) ==
  LET configuredToken == getTokenConfigByTicker(unit)
  IN  IF configuredToken # 0 THEN TRADING_TOKENS[configuredToken]
      ELSE [unit |-> unit, ticker |-> "fallback", category |-> "other",
            decimals |-> Undefined, minTradeSize |-> Num(Ada(10)), maxTradeSize |-> Num(Ada(200))]

\* tokenConfig.minTradeSize || 50
DefaultMinSize == 5000

\* tokenConfig.maxTradeSize || 500
DefaultMaxSize == 50000

\* decision.confidence < 0.6
ConfidenceThreshold == 60

\* v || d, for a JavaScript value v and a number d; the result as a number
OrElse(v, d) == IF Truthy(v) THEN ToNumber(v) ELSE d

(***************************************************************************)
(* Strings of decimal digits (addressInfo.lovelace, asset.quantity) are    *)
(* sequences of digits; parseInt(s, 10) reads them.                        *)
(***************************************************************************)
RECURSIVE ParseDigits(_, _)
ParseDigits(s, acc) ==
  IF s = <<>> THEN acc ELSE ParseDigits(Tail(s), 10 * acc + Head(s))

\* parseInt(s, 10): NaN for the empty string
ParseInt(s) == IF s = <<>> THEN NaN ELSE ParseDigits(s, 0)

RECURSIVE Pow10(_)
Pow10(d) == IF d = 0 THEN 1 ELSE 10 * Pow10(d - 1)

\* lovelace / 1_000_000, in hundredths of an ADA
LovelaceToAda(lovelace) == IF lovelace = NaN THEN NaN ELSE lovelace \div 10000

(***************************************************************************)
(* 6) LLM decision: getLlmTradingDecision (part_000:545-610)               *)
(***************************************************************************)

\* what the catch block returns
DefaultDecision ==
  [kind |-> "object", trade |-> Str("false"), direction |-> Str("buy"),
   confidence |-> Num(0), size |-> Num(0)]

\* no decision requested yet for the current token
NoDecision ==
  [kind |-> "none", trade |-> Undefined, direction |-> Undefined,
   confidence |-> Undefined, size |-> Undefined]

\* JSON.parse("null")
NullDecision ==
  [kind |-> "null", trade |-> Undefined, direction |-> Undefined,
   confidence |-> Undefined, size |-> Undefined]

\* The values a field of the reply can take.
TradeValues == {Str("true"), Str("false"), Bool(FALSE), Undefined}

DirectionValues == {Str("buy"), Str("sell"), Undefined}

ConfidenceValues == {Num(40), Num(60), Undefined}

SizeValues == {Num(50), Num(5000), Num(100000), Undefined, Str("large")}

\* The replies of the decision source: the request throws, the text does not
\* parse, the text is the JSON literal null, or it is a JSON object.
LlmReplies ==
  {[kind |-> "throws", value |-> NoDecision],
   [kind |-> "unparsable", value |-> NoDecision],
   [kind |-> "json", value |-> NullDecision]}
  \cup
  {[kind |-> "json",
    value |-> [kind |-> "object", trade |-> t, direction |-> d,
               confidence |-> c, size |-> z]] :
     t \in TradeValues, d \in DirectionValues, c \in ConfidenceValues, z \in SizeValues}

\* try { ... return JSON.parse(text) } catch { return the default }
getLlmTradingDecision(reply) ==
  IF reply.kind \in {"throws", "unparsable"} THEN DefaultDecision ELSE reply.value

(***************************************************************************)
(* 5) TapTools calls.  Every call catches its own failure and returns an   *)
(* empty value (part_000:366-525).                                         *)
(***************************************************************************)

\* the six market-data calls of one token, in the order the loop makes them
MarketCalls ==
  {"aggregated_price", "price_change", "pools", "ohlcv", "trading_stats", "mcap"}

\* what a call leaves in tokenData when it fails: {} for the record calls, []
\* for the list calls, and ({})[unit] ?? null for the price
EmptyResult(c) ==
  CASE c = "aggregated_price" -> "null"
    [] c \in {"pools", "ohlcv"} -> "[]"
    [] OTHER -> "{}"

\* one TapTools call: resp.data, or the empty value of the catch block
taptoolsCall(c, ok) == IF ok THEN "data" ELSE EmptyResult(c)

\* which calls of one token fail: none, any single one, or all (TapTools down)
FailureSets == {{}} \cup {{c} : c \in MarketCalls} \cup {MarketCalls}

\* tokenData before the calls are made
NoTokenData == [c \in MarketCalls |-> "unset"]

\* the units a wallet of the model can hold: a listed token and an unlisted one
WalletUnits == {"unit_SNEK", "unit_X"}

\* a unit no list knows whose text contains the policy id 'policy1'
StableUnit == "policy1_STBL"

\* the price TapTools reports for one token: 1 ADA
MarketPrice == Ada(1)

\* every unit of the model: the listed tokens and the unlisted one
Units == {TRADING_TOKENS[i].unit : i \in 1..Len(TRADING_TOKENS)} \cup WalletUnits \cup {StableUnit}

\* taptoolsGetTokenPrices(units): resp.data (a price for the units TapTools knows),
\* or {} on failure; an absent key reads as 0 through `prices[unit] || 0`
taptoolsGetTokenPrices(units, ok, priced) ==
  [u \in Units |-> IF ok /\ u \in units /\ u \in priced THEN MarketPrice ELSE 0]

\* taptoolsGetTokenPrices(units) with resp.data stating the price data[u] for unit u
\* (0: no price stated)
taptoolsGetTokenPricesOf(units, ok, data) ==
  [u \in Units |-> IF ok /\ u \in units THEN data[u] ELSE 0]

\* what resp.data states when it prices the units of priced at the market price
PricedAtMarket(priced) == [u \in Units |-> IF u \in priced THEN MarketPrice ELSE 0]

\* getAssetDecimals: response.data[0].decimals || 0, and 0 when nothing is found
\* or the lookup throws (part_000:726-749)
getAssetDecimals(reply) == IF reply.kind = "found" THEN reply.decimals ELSE 0

DecimalsReplies ==
  {[kind |-> "throws", decimals |-> 0], [kind |-> "none", decimals |-> 0],
   [kind |-> "found", decimals |-> 0], [kind |-> "found", decimals |-> 1]}

\* tokenInfo?.decimals || await getAssetDecimals(asset.unit) (part_000:992): the
\* decimals used, and whether getAssetDecimals was called
ResolveDecimals(cfgDecimals, reply) ==
  IF Truthy(cfgDecimals)
  THEN [decimals |-> ToNumber(cfgDecimals), lookedUp |-> FALSE]
  ELSE [decimals |-> getAssetDecimals(reply), lookedUp |-> TRUE]

\* the most holdings a wallet of the model lists
MaxAssets == 1

\* "100"
Qty100 == <<1, 0, 0>>

Holdings == {[unit |-> u, quantity |-> Qty100] : u \in WalletUnits}

RECURSIVE SeqsUpTo(_, _)
SeqsUpTo(S, n) ==
  IF n = 0 THEN {<<>>}
  ELSE LET shorter == SeqsUpTo(S, n - 1)
       IN  shorter \cup {Append(q, x) : q \in {r \in shorter : Len(r) = n - 1}, x \in S}

\* addressInfo.lovelace: absent, 1 ADA, 1000 ADA
LovelaceValues == {<<>>, <<1,0,0,0,0,0,0>>, <<1,0,0,0,0,0,0,0,0,0>>}

NullAddressInfo == [isNull |-> TRUE, lovelace |-> <<>>, assets |-> <<>>]

\* taptoolsGetAddressInfo: resp.data, or null on failure (part_000:383-398)
AddressInfoReplies ==
  {NullAddressInfo} \cup
  {[isNull |-> FALSE, lovelace |-> l, assets |-> a] :
     l \in LovelaceValues, a \in SeqsUpTo(Holdings, MaxAssets)}

ZeroCategoryValues == [c \in Category |-> 0]

RECURSIVE SumValues(_, _)
\* the sum of the values cv gives to the categories in S
SumValues(cv, S) ==
  IF S = {} THEN 0
  ELSE LET c == CHOOSE x \in S : TRUE IN cv[c] + SumValues(cv, S \ {c})

(***************************************************************************)
(* State                                                                   *)
(***************************************************************************)
VARIABLES
  CARDANO_ADDRESS,  \* process.env.CARDANO_ADDRESS: "" when not set
  pc,               \* where loop() stands
  tokens,           \* loop: tokens
  idx,              \* loop: position of the for..of over tokens (1-based)
  addressInfo,      \* loop: addressInfo
  tokenPrices,      \* loop: tokenPrices of the valuation
  ai,               \* loop: position of the for..of over addressInfo.assets
  categoryValues,   \* loop: categoryValues
  totalAdaValue,    \* loop: totalAdaValue
  tokenData,        \* loop: tokenData of the current token
  decision,         \* loop: decision of the current token
  finalAmount,      \* loop: finalAmount of the current token
  thrown,           \* the error the outer catch of loop() caught, "" if none
  failedCalls,      \* history: market-data calls of the current token that failed
  marketFailed,     \* history: some market-data call failed in this iteration
  evaluated,        \* history: tokens whose decision was requested this iteration
  sized,            \* history: the sizer call made for the current token
  swap,             \* history: the executeDexSwap call made for the current token
  approved,         \* history: per category, the sum of the buy amounts (numbers of
                    \* ADA) the sizer approved that were handed to executeDexSwap in
                    \* this iteration
  addressFetches,   \* history: calls of taptoolsGetAddressInfo in this iteration
  valuations,       \* history: times the `if (addressInfo)` valuation block was entered
  call,             \* a call of the position sizer on its own (SpecSizer)
  between,          \* SpecSizer: another sizer call made after `call`
  again,            \* SpecSizer: the call of `call` repeated with the same arguments
  env,              \* the credentials present in process.env
  targetRatios,     \* the TARGET_RATIOS the configuration file states
  main,             \* where the module's start and mainLoop() stand
  runs,             \* SpecSchedule: the bag of the positions at which the activations
                    \* of loop() in flight are suspended
  ran,              \* SpecSchedule history: what startup and the activations did
  ratioConfig,      \* SpecRatios: the TARGET_RATIOS of a shipped configuration file
  summed,           \* SpecRatios: the categories whose ratio was added, in order
  ratioTotal,       \* SpecRatios: the sum of the ratios added so far, a double
  decimalsCall,     \* SpecDecimals: the decimals of one holding resolved on its own
  topTokensCall,    \* SpecTopTokens: a call of getTopTokens on its own
  pipeline,         \* SpecSwaps: the await at which the activation of loop() stands
  transactions      \* SpecSwaps: per token, the state of the swap transaction that
                    \* swapReq.submit() started for it in this iteration

vars ==
  << CARDANO_ADDRESS, pc, tokens, idx, addressInfo, tokenPrices, ai, categoryValues,
     totalAdaValue, tokenData, decision, finalAmount, thrown, failedCalls,
     marketFailed, evaluated, sized, swap, approved, addressFetches, valuations,
     call, between, again, env, targetRatios, main, runs, ran,
     ratioConfig, summed, ratioTotal, decimalsCall, topTokensCall,
     pipeline, transactions >>

loopLocals ==
  << tokens, idx, addressInfo, tokenPrices, ai, categoryValues, totalAdaValue,
     tokenData, decision, finalAmount >>

history == << failedCalls, marketFailed, evaluated, sized, swap >>

\* what the iteration did with the wallet so far
portfolioHistory == << approved, addressFetches, valuations >>

\* the position sizer called on its own
sizerCalls == << call, between, again >>

\* the configuration, mainLoop() and the activations of loop() it schedules
schedule == << env, targetRatios, main, runs, ran >>

\* the state outside the activation of loop() that Spec follows
outside == << sizerCalls, schedule >>

\* the shipped ratios summed on their own (SpecRatios)
ratioSums == << ratioConfig, summed, ratioTotal >>

\* one activation of loop() and the swap transactions it started (SpecSwaps)
swaps == << pipeline, transactions >>

\* the state of the specifications that apply one function on its own
standalone == << ratioSums, decimalsCall, topTokensCall, swaps >>

NoSized ==
  [called |-> FALSE, direction |-> Undefined, category |-> "other", recommendedAda |-> 0,
   totalAdaValue |-> 0, currentCategoryValue |-> 0, userAdaBalance |-> 0, result |-> 0]

NoSwap == [called |-> FALSE, direction |-> Undefined, quantityAda |-> 0, unit |-> "", outcome |-> ""]

NoPrices == [u \in Units |-> 0]

\* the locals of loop() before it runs
FreshLocals ==
  /\ tokens = <<>>
  /\ idx = 0
  /\ addressInfo = NullAddressInfo
  /\ tokenPrices = NoPrices
  /\ ai = 0
  /\ categoryValues = ZeroCategoryValues
  /\ totalAdaValue = 0
  /\ tokenData = NoTokenData
  /\ decision = NoDecision
  /\ finalAmount = 0
  /\ thrown = ""
  /\ failedCalls = {}
  /\ marketFailed = FALSE
  /\ evaluated = 0
  /\ sized = NoSized
  /\ swap = NoSwap
  /\ approved = ZeroCategoryValues
  /\ addressFetches = 0
  /\ valuations = 0

\* the credentials the module reads from process.env (part_000:270-276)
Credentials == {"TAP_TOOLS_API_KEY", "OPENAI_API_KEY", "BLOCKFROST_PROJECT_ID", "SEED_PHRASE"}

\* the most activations of loop() the model keeps in flight at once
MaxRunning == 2

\* no activation of loop() is in flight
NoRuns == EmptyBag

NoAgain == [called |-> FALSE, result |-> 0]

\* the module has started with the shipped configuration and every credential, and
\* mainLoop() has armed the timer
StartupDone ==
  /\ env = Credentials
  /\ targetRatios = TARGET_RATIOS
  /\ main = "armed"
  /\ runs = NoRuns
  /\ ran = {}

\* no ratio summed
RatioSumsIdle ==
  /\ ratioConfig = TARGET_RATIOS
  /\ summed = << >>
  /\ ratioTotal = DoubleZero

\* no decimals resolved
NoDecimalsCall ==
  [cfgDecimals |-> Undefined, reply |-> [kind |-> "none", decimals |-> 0],
   called |-> FALSE, decimals |-> 0, lookedUp |-> FALSE]

\* getTopTokens not called
NoTopTokensCall ==
  [source |-> "PREDEFINED_LIST", topVolumeTokens |-> << >>, pricesOk |-> FALSE,
   called |-> FALSE, result |-> << >>]

\* no activation followed, no swap transaction started
SwapsIdle ==
  /\ pipeline = [pc |-> "return", idx |-> 0, ai |-> 0]
  /\ transactions = << >>

\* the functions applied on their own are not in use
StandaloneIdle ==
  /\ RatioSumsIdle
  /\ decimalsCall = NoDecimalsCall
  /\ topTokensCall = NoTopTokensCall
  /\ SwapsIdle

\* the running program, which the specifications of single functions leave alone
program ==
  << CARDANO_ADDRESS, pc, loopLocals, thrown, history, portfolioHistory, outside >>

\* the running program at rest: started up, no activation of loop() under way
ProgramIdle ==
  /\ CARDANO_ADDRESS = ""
  /\ pc = "idle"
  /\ FreshLocals
  /\ call = NoSized
  /\ between = NoSized
  /\ again = NoAgain
  /\ StartupDone

\* Spec follows one activation of loop() after a successful startup
Init ==
  /\ CARDANO_ADDRESS \in {"", "addr1"}
  /\ pc = "idle"
  /\ FreshLocals
  /\ call = NoSized
  /\ between = NoSized
  /\ again = NoAgain
  /\ StartupDone
  /\ StandaloneIdle

(***************************************************************************)
(* getTopTokens (part_000:816-863)                                         *)
(***************************************************************************)

\* ACTIVE_TOKEN_SOURCE (part_000:212)
ACTIVE_TOKEN_SOURCE == "PREDEFINED_LIST"

\* PushNew pushing every top-volume token
PushAll(combined, rest) == combined \o rest

\* for (const token of topVolumeTokens) if (!combined.some(same unit)) push
RECURSIVE PushNew(_, _)
PushNew(combined, rest) ==
  IF rest = <<>> THEN combined
  ELSE PushNew(IF \E i \in 1..Len(combined) : combined[i].unit = Head(rest).unit
               THEN combined ELSE Append(combined, Head(rest)),
               Tail(rest))

getTopTokens(source, topVolumeTokens, prices) ==
  LET configuredTokens ==
        [i \in 1..Len(getAllTradingTokens) |->
           [ticker |-> getAllTradingTokens[i].ticker, unit |-> getAllTradingTokens[i].unit,
            price |-> 0, volume |-> 0]]
      first == IF source \in {"PREDEFINED_LIST", "COMBINED"} THEN configuredTokens ELSE <<>>
      combinedTokens ==
        IF source \in {"TOP_VOLUME", "COMBINED"} THEN PushNew(first, topVolumeTokens) ELSE first
  IN  [i \in 1..Len(combinedTokens) |->
         IF combinedTokens[i].price = 0
         THEN [combinedTokens[i] EXCEPT !.price = prices[combinedTokens[i].unit]]
         ELSE combinedTokens[i]]

(***************************************************************************)
(* loop() (part_000:938-1074), one action per await                        *)
(***************************************************************************)

\* const tokens = await getTopTokens(); if (!tokens.length) return;
GetTopTokens ==
  /\ pc = "idle"
  /\ \E ok \in BOOLEAN :
       LET units == {TRADING_TOKENS[i].unit : i \in 1..Len(TRADING_TOKENS)}
           t == getTopTokens(ACTIVE_TOKEN_SOURCE, <<>>, taptoolsGetTokenPrices(units, ok, units))
       IN  /\ tokens' = t
           /\ pc' = IF Len(t) = 0 THEN "done" ELSE "addressInfo"
  /\ UNCHANGED << standalone, CARDANO_ADDRESS, idx, addressInfo, tokenPrices, ai, categoryValues,
                  totalAdaValue, tokenData, decision, finalAmount, thrown, history, portfolioHistory,
                  outside >>

\* if (CARDANO_ADDRESS) addressInfo = await taptoolsGetAddressInfo(...);
\* then, with address info, the ADA balance seeds categoryValues.ada and the total
GetAddressInfoFrom(replies) ==
  /\ pc = "addressInfo"
  /\ \E reply \in replies :
       LET info == IF CARDANO_ADDRESS # "" THEN reply ELSE NullAddressInfo
           adaStr == IF info.lovelace # <<>> THEN info.lovelace ELSE <<0>>
           userAda == LovelaceToAda(ParseInt(adaStr))
       IN  /\ addressInfo' = info
           /\ categoryValues' =
                IF info.isNull THEN ZeroCategoryValues
                ELSE [ZeroCategoryValues EXCEPT !.ada = userAda]
           /\ totalAdaValue' = IF info.isNull THEN 0 ELSE 0 + userAda
           /\ pc' = IF info.isNull THEN "fetch" ELSE "walletPrices"
           /\ idx' = IF info.isNull THEN 1 ELSE idx
           /\ addressFetches' = IF CARDANO_ADDRESS # "" THEN addressFetches + 1
                                ELSE addressFetches
           /\ valuations' = IF info.isNull THEN valuations ELSE valuations + 1
  /\ UNCHANGED << standalone, CARDANO_ADDRESS, tokens, tokenPrices, ai, tokenData, decision,
                  finalAmount, thrown, history, approved, outside >>

GetAddressInfo == GetAddressInfoFrom(AddressInfoReplies)

\* const tokenPrices = await taptoolsGetTokenPrices(allUnitsInWallet);
GetWalletPricesFrom(responses) ==
  /\ pc = "walletPrices"
  /\ LET allUnitsInWallet ==
           {addressInfo.assets[i].unit : i \in 1..Len(addressInfo.assets)}
     IN  \E ok \in BOOLEAN, data \in responses :
           tokenPrices' = taptoolsGetTokenPricesOf(allUnitsInWallet, ok, data)
  /\ IF Len(addressInfo.assets) = 0
     THEN pc' = "fetch" /\ idx' = 1 /\ ai' = ai
     ELSE pc' = "valueAsset" /\ ai' = 1 /\ idx' = idx
  /\ UNCHANGED << standalone, CARDANO_ADDRESS, tokens, addressInfo, categoryValues, totalAdaValue,
                  tokenData, decision, finalAmount, thrown, history, portfolioHistory,
                  outside >>

GetWalletPrices ==
  GetWalletPricesFrom({PricedAtMarket(priced) : priced \in SUBSET WalletUnits})

\* ValueAsset crediting the holding to the total but to no category
ValueAssetTotalOnly ==
  /\ pc = "valueAsset"
  /\ \E reply \in DecimalsReplies :
       LET asset == addressInfo.assets[ai]
           price == tokenPrices[asset.unit]
           valueInAda == (ParseInt(asset.quantity) * price) \div Pow10(getAssetDecimals(reply))
       IN  totalAdaValue' = IF price <= 0 THEN totalAdaValue ELSE totalAdaValue + valueInAda
  /\ IF ai < Len(addressInfo.assets)
     THEN ai' = ai + 1 /\ pc' = pc /\ idx' = idx
     ELSE ai' = ai /\ pc' = "fetch" /\ idx' = 1
  /\ UNCHANGED << standalone, CARDANO_ADDRESS, tokens, addressInfo, tokenPrices, categoryValues, tokenData,
                  decision, finalAmount, thrown, history, portfolioHistory, outside >>

\* ValueAssetWith skipping a holding only when its price is 0
ValueAssetSkipsZeroOnly(reply) ==
  /\ pc = "valueAsset"
  /\ LET asset == addressInfo.assets[ai]
         price == tokenPrices[asset.unit]
         tokenInfo == getTokenConfig(asset.unit)
         valueInAda == (ParseInt(asset.quantity) * price) \div Pow10(getAssetDecimals(reply))
         category == IF tokenInfo # 0 THEN TRADING_TOKENS[tokenInfo].category ELSE "other"
     IN  IF price = 0
         THEN UNCHANGED << categoryValues, totalAdaValue >>
         ELSE /\ categoryValues' =
                   [categoryValues EXCEPT ![category] = categoryValues[category] + valueInAda]
              /\ totalAdaValue' = totalAdaValue + valueInAda
  /\ IF ai < Len(addressInfo.assets)
     THEN ai' = ai + 1 /\ pc' = pc /\ idx' = idx
     ELSE ai' = ai /\ pc' = "fetch" /\ idx' = 1
  /\ UNCHANGED << standalone, CARDANO_ADDRESS, tokens, addressInfo, tokenPrices, tokenData, decision,
                  finalAmount, thrown, history, portfolioHistory,
                  outside >>

\* one pass of `for (const asset of addressInfo.assets)` (part_000:986-1002), with
\* reply what the lookup of getAssetDecimals meets
ValueAssetWith(reply) ==
  /\ pc = "valueAsset"
  /\ LET asset == addressInfo.assets[ai]
         price == tokenPrices[asset.unit]
         tokenInfo == getTokenConfig(asset.unit)
         cfgDecimals == IF tokenInfo # 0 THEN TRADING_TOKENS[tokenInfo].decimals ELSE Undefined
         decimals == ResolveDecimals(cfgDecimals, reply).decimals
         valueInAda == (ParseInt(asset.quantity) * price) \div Pow10(decimals)
         category == IF tokenInfo # 0 THEN TRADING_TOKENS[tokenInfo].category ELSE "other"
     IN  IF price <= 0
         THEN UNCHANGED << categoryValues, totalAdaValue >>
         ELSE /\ categoryValues' =
                   [categoryValues EXCEPT ![category] = categoryValues[category] + valueInAda]
              /\ totalAdaValue' = totalAdaValue + valueInAda
  /\ IF ai < Len(addressInfo.assets)
     THEN ai' = ai + 1 /\ pc' = pc /\ idx' = idx
     ELSE ai' = ai /\ pc' = "fetch" /\ idx' = 1
  /\ UNCHANGED << standalone, CARDANO_ADDRESS, tokens, addressInfo, tokenPrices, tokenData, decision,
                  finalAmount, thrown, history, portfolioHistory,
                  outside >>

ValueAsset == \E reply \in DecimalsReplies : ValueAssetWith(reply)

\* FetchData with a failing call throwing into the outer catch of loop()
FetchDataPropagates ==
  /\ pc = "fetch"
  /\ \E failed \in FailureSets :
       /\ tokenData' = [c \in MarketCalls |-> IF failed = {} THEN "data" ELSE "unset"]
       /\ failedCalls' = {}
       /\ marketFailed' = (marketFailed \/ failed # {})
       /\ pc' = IF failed = {} THEN "decide" ELSE "done"
       /\ thrown' = IF failed = {} THEN thrown ELSE "AxiosError"
  /\ UNCHANGED << standalone, CARDANO_ADDRESS, tokens, idx, addressInfo, tokenPrices, ai, categoryValues,
                  totalAdaValue, decision, finalAmount, evaluated, sized, swap, portfolioHistory,
                  outside >>

\* the six TapTools calls of one token (part_000:1011-1025); each one that fails
\* leaves its empty value in tokenData
FetchData ==
  /\ pc = "fetch"
  /\ \E failed \in FailureSets :
       /\ tokenData' = [c \in MarketCalls |-> taptoolsCall(c, c \notin failed)]
       /\ failedCalls' = failed
       /\ marketFailed' = (marketFailed \/ failed # {})
  /\ pc' = "decide"
  /\ UNCHANGED << standalone, CARDANO_ADDRESS, tokens, idx, addressInfo, tokenPrices, ai, categoryValues,
                  totalAdaValue, decision, finalAmount, thrown, evaluated, sized, swap, portfolioHistory,
                  outside >>

\* const decision = await getLlmTradingDecision(tokenData); tokenData is not read
\* again afterwards
RequestDecision ==
  /\ pc = "decide"
  /\ \E reply \in LlmReplies : decision' = getLlmTradingDecision(reply)
  /\ evaluated' = evaluated + 1
  /\ tokenData' = NoTokenData
  /\ failedCalls' = {}
  /\ pc' = "gate"
  /\ UNCHANGED << standalone, CARDANO_ADDRESS, tokens, idx, addressInfo, tokenPrices, ai, categoryValues,
                  totalAdaValue, finalAmount, thrown, marketFailed, sized, swap, portfolioHistory,
                  outside >>

\* GateRejects without the confidence test
GateRejectsOnTradeFlagOnly(d) == StrictEq(d.trade, Str("false"))

\* decision.trade === 'false', then decision.confidence < 0.6 (part_000:1030-1037)
GateRejects(d) ==
  \/ StrictEq(d.trade, Str("false"))
  \/ Lt(ToNumber(d.confidence), ConfidenceThreshold)

\* Math.min(Math.max(decision.size || minSize, minSize), maxSize) (part_000:1047-1049)
RecommendedSize(d, tokenConfig) ==
  LET minSize == OrElse(tokenConfig.minTradeSize, DefaultMinSize)
      maxSize == OrElse(tokenConfig.maxTradeSize, DefaultMaxSize)
      wanted == IF Truthy(d.size) THEN ToNumber(d.size) ELSE minSize
  IN  MathMin(MathMax(wanted, minSize), maxSize)

\* finalAmount < 1 -> continue (part_000:1063-1066)
SkipsDust(amount) == Lt(amount, DustThreshold)

\* the synchronous stretch between the decision and the swap (part_000:1028-1068):
\* reading decision.trade of null and calling toUpperCase on a direction that is no
\* string raise a TypeError, which only the outer catch of loop() handles
GateAndSize ==
  /\ pc = "gate"
  /\ LET tokenConfig == getTokenInfo(tokens[idx].unit)
         recommended == RecommendedSize(decision, tokenConfig)
         hasInfo == ~addressInfo.isNull
         adjusted == adjustTradeForPortfolio(decision.direction, tokenConfig.category,
                       recommended, totalAdaValue, categoryValues[tokenConfig.category],
                       categoryValues.ada)
         final == IF hasInfo THEN adjusted ELSE recommended
     IN  IF decision.kind = "null"
         THEN /\ pc' = "done" /\ thrown' = "TypeError"
              /\ UNCHANGED << finalAmount, sized >>
         ELSE IF GateRejects(decision)
         THEN /\ pc' = "tokenDone"
              /\ UNCHANGED << finalAmount, sized, thrown >>
         ELSE /\ finalAmount' = final
              /\ sized' = IF hasInfo
                          THEN [called |-> TRUE, direction |-> decision.direction,
                                category |-> tokenConfig.category,
                                recommendedAda |-> recommended,
                                totalAdaValue |-> totalAdaValue,
                                currentCategoryValue |-> categoryValues[tokenConfig.category],
                                userAdaBalance |-> categoryValues.ada, result |-> adjusted]
                          ELSE sized
              /\ IF hasInfo /\ SkipsDust(final)
                 THEN pc' = "tokenDone" /\ thrown' = thrown
                 ELSE IF decision.direction.t # "string"
                 THEN pc' = "done" /\ thrown' = "TypeError"
                 ELSE pc' = "execute" /\ thrown' = thrown
  /\ UNCHANGED << standalone, CARDANO_ADDRESS, tokens, idx, addressInfo, tokenPrices, ai, categoryValues,
                  totalAdaValue, tokenData, decision, failedCalls, marketFailed, evaluated,
                  swap, portfolioHistory,
                  outside >>

\* await executeDexSwap(decision.direction, finalAmount, unit) (part_000:752-814):
\* the pool lookup may throw or find nothing, BigInt(quantityAda * 1_000_000) throws
\* for NaN; everything is caught inside
executeDexSwap(direction, quantityAda, unit, irisOk, poolFound) ==
  [called |-> TRUE, direction |-> direction, quantityAda |-> quantityAda, unit |-> unit,
   outcome |-> IF ~irisOk THEN "error"
               ELSE IF ~poolFound THEN "no_pool"
               ELSE IF quantityAda = NaN THEN "error"
               ELSE "submitted"]

\* ExecuteDexSwap booking an approved buy into the snapshot: the ADA spent leaves
\* category 'ada' and enters the token's category
ExecuteDexSwapUpdatesSnapshot ==
  /\ pc = "execute"
  /\ \E irisOk \in BOOLEAN, poolFound \in BOOLEAN :
       swap' = executeDexSwap(decision.direction, finalAmount, tokens[idx].unit, irisOk, poolFound)
  /\ approved' =
       IF sized.called /\ StrictEq(decision.direction, Str("buy")) /\ finalAmount # NaN
       THEN [approved EXCEPT ![sized.category] = Plus(approved[sized.category], finalAmount)]
       ELSE approved
  /\ categoryValues' =
       IF sized.called /\ StrictEq(decision.direction, Str("buy")) /\ finalAmount # NaN
       THEN [categoryValues EXCEPT ![sized.category] = @ + finalAmount]
       ELSE categoryValues
  /\ pc' = "tokenDone"
  /\ UNCHANGED << standalone, CARDANO_ADDRESS, tokens, idx, addressInfo, tokenPrices, ai,
                  totalAdaValue, tokenData, decision, finalAmount, thrown, failedCalls,
                  marketFailed, evaluated, sized, addressFetches, valuations, outside >>

ExecuteDexSwap ==
  /\ pc = "execute"
  /\ \E irisOk \in BOOLEAN, poolFound \in BOOLEAN :
       swap' = executeDexSwap(decision.direction, finalAmount, tokens[idx].unit, irisOk, poolFound)
  /\ approved' =
       IF sized.called /\ StrictEq(decision.direction, Str("buy")) /\ finalAmount # NaN
       THEN [approved EXCEPT ![sized.category] = Plus(approved[sized.category], finalAmount)]
       ELSE approved
  /\ pc' = "tokenDone"
  /\ UNCHANGED << standalone, CARDANO_ADDRESS, tokens, idx, addressInfo, tokenPrices, ai, categoryValues,
                  totalAdaValue, tokenData, decision, finalAmount, thrown, failedCalls,
                  marketFailed, evaluated, sized, addressFetches, valuations,
                  outside >>

\* Advance with the valuation redone for every token
AdvanceRevalues ==
  /\ pc = "tokenDone"
  /\ decision' = NoDecision
  /\ finalAmount' = 0
  /\ sized' = NoSized
  /\ swap' = NoSwap
  /\ IF idx < Len(tokens) THEN idx' = idx + 1 /\ pc' = "addressInfo" ELSE idx' = idx /\ pc' = "done"
  /\ UNCHANGED << standalone, CARDANO_ADDRESS, tokens, addressInfo, tokenPrices, ai, categoryValues,
                  totalAdaValue, tokenData, thrown, failedCalls, marketFailed, evaluated,
                  portfolioHistory, outside >>

\* the for..of over tokens moves on: the locals of the body are gone
Advance ==
  /\ pc = "tokenDone"
  /\ decision' = NoDecision
  /\ finalAmount' = 0
  /\ sized' = NoSized
  /\ swap' = NoSwap
  /\ IF idx < Len(tokens) THEN idx' = idx + 1 /\ pc' = "fetch" ELSE idx' = idx /\ pc' = "done"
  /\ UNCHANGED << standalone, CARDANO_ADDRESS, tokens, addressInfo, tokenPrices, ai, categoryValues,
                  totalAdaValue, tokenData, thrown, failedCalls, marketFailed, evaluated, portfolioHistory,
                  outside >>

\* loop() returns (after the outer catch logged what was thrown); its locals are gone
LoopReturn ==
  /\ pc = "done"
  /\ pc' = "idle"
  /\ tokens' = <<>>
  /\ idx' = 0
  /\ addressInfo' = NullAddressInfo
  /\ tokenPrices' = NoPrices
  /\ ai' = 0
  /\ categoryValues' = ZeroCategoryValues
  /\ totalAdaValue' = 0
  /\ tokenData' = NoTokenData
  /\ decision' = NoDecision
  /\ finalAmount' = 0
  /\ thrown' = ""
  /\ failedCalls' = {}
  /\ marketFailed' = FALSE
  /\ evaluated' = 0
  /\ sized' = NoSized
  /\ swap' = NoSwap
  /\ approved' = ZeroCategoryValues
  /\ addressFetches' = 0
  /\ valuations' = 0
  /\ UNCHANGED << standalone, CARDANO_ADDRESS, outside >>

Next ==
  \/ GetTopTokens
  \/ GetAddressInfo
  \/ GetWalletPrices
  \/ ValueAsset
  \/ FetchData
  \/ RequestDecision
  \/ GateAndSize
  \/ ExecuteDexSwap
  \/ Advance
  \/ LoopReturn

Spec == Init /\ [][Next]_vars

(***************************************************************************)
(* The position sizer on its own: Init draws the arguments, CallSizer      *)
(* applies adjustTradeForPortfolio to them.                                *)
(***************************************************************************)
RecommendedValues == {0, 50, Ada(1), Ada(50), Ada(100), Ada(200)}

TotalValues == {0, Ada(200), Ada(1000)}

CategoryValueValues == {0, Ada(100), 14950, Ada(150), Ada(300)}

BalanceValues == {0, Ada(1), 250, Ada(3), Ada(500)}

InitSizer ==
  /\ CARDANO_ADDRESS = ""
  /\ pc = "idle"
  /\ FreshLocals
  /\ call \in
       {[called |-> FALSE, direction |-> d, category |-> c, recommendedAda |-> r,
         totalAdaValue |-> t, currentCategoryValue |-> v, userAdaBalance |-> b,
         result |-> 0] :
          d \in {Str("buy"), Str("sell")}, c \in Category, r \in RecommendedValues,
          t \in TotalValues, v \in CategoryValueValues, b \in BalanceValues}
  /\ between = NoSized
  /\ again = NoAgain
  /\ StartupDone
  /\ StandaloneIdle

CallSizer ==
  /\ ~call.called
  /\ call' = [call EXCEPT
                !.called = TRUE,
                !.result = adjustTradeForPortfolio(call.direction, call.category,
                             call.recommendedAda, call.totalAdaValue,
                             call.currentCategoryValue, call.userAdaBalance)]
  /\ UNCHANGED << standalone, CARDANO_ADDRESS, pc, loopLocals, thrown, history, portfolioHistory,
                  between, again, schedule >>

\* the arguments of the call made between the two equal calls: a buy or a sell of 50
\* ADA in the same category or in 'other', against a wallet of 1000 ADA
BetweenCalls ==
  {[called |-> FALSE, direction |-> d, category |-> c, recommendedAda |-> Ada(50),
    totalAdaValue |-> Ada(1000), currentCategoryValue |-> 0, userAdaBalance |-> Ada(1000),
    result |-> 0] : d \in {Str("buy"), Str("sell")}, c \in {call.category, "other"}}

\* some other call of the sizer after the first one
CallBetween ==
  /\ call.called /\ ~between.called /\ ~again.called
  /\ \E b \in BetweenCalls :
       between' = [b EXCEPT
                     !.called = TRUE,
                     !.result = adjustTradeForPortfolio(b.direction, b.category,
                                  b.recommendedAda, b.totalAdaValue,
                                  b.currentCategoryValue, b.userAdaBalance)]
  /\ UNCHANGED << standalone, CARDANO_ADDRESS, pc, loopLocals, thrown, history, portfolioHistory,
                  call, again, schedule >>

\* CallAgain with a sizer that books what it approved: the buy approved in between
\* takes up room of its category
CallAgainBooked ==
  /\ call.called /\ ~again.called
  /\ LET booked == IF between.called /\ between.category = call.category
                      /\ StrictEq(between.direction, Str("buy"))
                   THEN between.result ELSE 0
     IN  again' = [called |-> TRUE,
                   result |-> adjustTradeForPortfolio(call.direction, call.category,
                                call.recommendedAda, call.totalAdaValue,
                                call.currentCategoryValue + booked, call.userAdaBalance)]
  /\ UNCHANGED << standalone, CARDANO_ADDRESS, pc, loopLocals, thrown, history, portfolioHistory,
                  call, between, schedule >>

\* the first call made once more with the same arguments
CallAgain ==
  /\ call.called /\ ~again.called
  /\ again' = [called |-> TRUE,
               result |-> adjustTradeForPortfolio(call.direction, call.category,
                            call.recommendedAda, call.totalAdaValue,
                            call.currentCategoryValue, call.userAdaBalance)]
  /\ UNCHANGED << standalone, CARDANO_ADDRESS, pc, loopLocals, thrown, history, portfolioHistory,
                  call, between, schedule >>

NextSizer ==
  \/ CallSizer
  \/ CallBetween
  \/ CallAgain

SpecSizer == InitSizer /\ [][NextSizer]_vars

(***************************************************************************)
(* The valuation of wallets of every kind (SpecValuation): loop() from its  *)
(* start to the end of the valuation, with up to MaxValued holdings, listed *)
(* or not, and prices below, at and above 0.                                *)
(***************************************************************************)

\* the most holdings a wallet of SpecValuation lists
MaxValued == 2

ValuedUnits == WalletUnits \cup {StableUnit}

ValuedHoldings == {[unit |-> u, quantity |-> Qty100] : u \in ValuedUnits}

ValuedReplies ==
  {NullAddressInfo} \cup
  {[isNull |-> FALSE, lovelace |-> l, assets |-> a] :
     l \in LovelaceValues, a \in SeqsUpTo(ValuedHoldings, MaxValued)}

\* the price resp.data states for a unit: a negative one, none or 0, the market price
PriceValues == {0 - MarketPrice, 0, MarketPrice}

PriceResponses ==
  {[u \in Units |-> IF u \in ValuedUnits THEN quote[u] ELSE 0] :
     quote \in [ValuedUnits -> PriceValues]}

NextValuation ==
  \/ GetTopTokens
  \/ GetAddressInfoFrom(ValuedReplies)
  \/ GetWalletPricesFrom(PriceResponses)
  \/ ValueAsset

SpecValuation == Init /\ [][NextValuation]_vars

(***************************************************************************)
(* The decimals of a holding resolved on their own (SpecDecimals), for a    *)
(* TokenConfig with and without a decimals entry.                           *)
(***************************************************************************)

\* the most decimals a TokenConfig or the asset metadata states
MaxDecimals == 6

\* TokenConfig.decimals (decimals?: number): absent, or 0 .. MaxDecimals
ConfiguredDecimals == {Undefined} \cup {Num(d) : d \in 0..MaxDecimals}

\* what the lookup of getAssetDecimals meets: an error, no asset, or an asset with
\* 0 .. MaxDecimals decimals
MetadataReplies ==
  {[kind |-> "throws", decimals |-> 0], [kind |-> "none", decimals |-> 0]}
    \cup {[kind |-> "found", decimals |-> d] : d \in 0..MaxDecimals}

InitDecimals ==
  /\ ProgramIdle
  /\ RatioSumsIdle
  /\ topTokensCall = NoTopTokensCall
  /\ SwapsIdle
  /\ decimalsCall \in
       {[cfgDecimals |-> c, reply |-> r, called |-> FALSE, decimals |-> 0,
         lookedUp |-> FALSE] : c \in ConfiguredDecimals, r \in MetadataReplies}

ResolveHoldingDecimals ==
  /\ ~decimalsCall.called
  /\ decimalsCall' =
       [decimalsCall EXCEPT
          !.called = TRUE,
          !.decimals = ResolveDecimals(decimalsCall.cfgDecimals, decimalsCall.reply).decimals,
          !.lookedUp = ResolveDecimals(decimalsCall.cfgDecimals, decimalsCall.reply).lookedUp]
  /\ UNCHANGED << program, ratioSums, topTokensCall, swaps >>

NextDecimals == ResolveHoldingDecimals

SpecDecimals == InitDecimals /\ [][NextDecimals]_vars

(***************************************************************************)
(* getTopTokens called on its own (SpecTopTokens), in each source mode and  *)
(* for top-volume lists that repeat units and name listed ones.             *)
(***************************************************************************)

\* the most tokens taptoolsGetTopVolumeTokens returns in the model
MaxTop == 3

\* the values of TokenSource (part_000:206-210)
TokenSource == {"PREDEFINED_LIST", "TOP_VOLUME", "COMBINED"}

\* a token of the top-volume response
VolumeToken(ticker, unit) ==
  [ticker |-> ticker, unit |-> unit, price |-> MarketPrice, volume |-> 1]

\* the tokens a top-volume response is made of: a listed one, an unlisted unit under
\* two tickers, and another unlisted one
TopVolumePool ==
  {VolumeToken("SNEK", "unit_SNEK"), VolumeToken("X", "unit_X"),
   VolumeToken("X2", "unit_X"), VolumeToken("STBL", StableUnit)}

InitTopTokens ==
  /\ ProgramIdle
  /\ RatioSumsIdle
  /\ decimalsCall = NoDecimalsCall
  /\ SwapsIdle
  /\ topTokensCall \in
       {[source |-> m, topVolumeTokens |-> t, pricesOk |-> ok, called |-> FALSE,
         result |-> << >>] :
          m \in TokenSource, t \in SeqsUpTo(TopVolumePool, MaxTop), ok \in BOOLEAN}

CallGetTopTokens ==
  /\ ~topTokensCall.called
  /\ topTokensCall' =
       [topTokensCall EXCEPT
          !.called = TRUE,
          !.result = getTopTokens(topTokensCall.source, topTokensCall.topVolumeTokens,
                                  taptoolsGetTokenPrices(Units, topTokensCall.pricesOk, Units))]
  /\ UNCHANGED << program, ratioSums, decimalsCall, swaps >>

NextTopTokens == CallGetTopTokens

SpecTopTokens == InitTopTokens /\ [][NextTopTokens]_vars

(***************************************************************************)
(* The shipped target ratios added up (SpecRatios).  The program never     *)
(* adds them; SpecRatios adds the ratios of a shipped file one by one, as   *)
(* doubles, in every order.                                                 *)
(***************************************************************************)
ShippedRatioConfigs == {TARGET_RATIOS, TEMPLATE_TARGET_RATIOS}

InitRatios ==
  /\ ProgramIdle
  /\ decimalsCall = NoDecimalsCall
  /\ topTokensCall = NoTopTokensCall
  /\ SwapsIdle
  /\ ratioConfig \in ShippedRatioConfigs
  /\ summed = << >>
  /\ ratioTotal = DoubleZero

\* the ratios not added yet
NotSummed == DOMAIN ratioConfig \ {summed[i] : i \in 1..Len(summed)}

\* ratioTotal + ratioConfig[c] for a category c not added yet
AddRatio ==
  /\ \E c \in NotSummed :
       /\ summed' = Append(summed, c)
       /\ ratioTotal' = DoubleAdd(ratioTotal, ToDouble(ratioConfig[c]))
  /\ UNCHANGED << ratioConfig, program, decimalsCall, topTokensCall, swaps >>

NextRatios == AddRatio

SpecRatios == InitRatios /\ [][NextRatios]_vars

(***************************************************************************)
(* Startup and the schedule (part_000:270-292, 320-353, 1079-1091).  Every *)
(* activation of loop() is followed through its awaits, with the data that *)
(* decides its branches left open.                                         *)
(***************************************************************************)

\* what the configuration file may state: the shipped ratios, and the shipped ratios
\* with 'other' edited to 0.10 or to 0 (sums 1.05 and 0.95)
RatioConfigs ==
  {TARGET_RATIOS, [TARGET_RATIOS EXCEPT !.other = 10], [TARGET_RATIOS EXCEPT !.other = 0]}

\* the sum of the ratios of a configuration, in hundredths
RatioSum(ratios) == SumValues(ratios, Category)

\* the tokens an iteration works through: what getTopTokens returns
NumTokens == Len(getTopTokens(ACTIVE_TOKEN_SOURCE, <<>>, NoPrices))

InitSchedule ==
  /\ CARDANO_ADDRESS \in {"", "addr1"}
  /\ pc = "idle"
  /\ FreshLocals
  /\ call = NoSized
  /\ between = NoSized
  /\ again = NoAgain
  /\ env \in SUBSET Credentials
  /\ targetRatios \in RatioConfigs
  /\ main = "start"
  /\ runs = NoRuns
  /\ ran = {}
  /\ StandaloneIdle

\* the state SpecSchedule leaves alone
unscheduled ==
  << pc, loopLocals, thrown, history, portfolioHistory, sizerCalls >>

\* ModuleStart with setupDexterProviders() not testing SEED_PHRASE
ModuleStartNoSeedCheck ==
  /\ main = "start"
  /\ main' = IF {"TAP_TOOLS_API_KEY", "OPENAI_API_KEY", "BLOCKFROST_PROJECT_ID"} \subseteq env
             THEN "loadWallet" ELSE "exited"
  /\ UNCHANGED << standalone, CARDANO_ADDRESS, env, targetRatios, runs, ran, unscheduled >>

\* the module body up to mainLoop() (part_000:278-292, 1091): a missing TapTools,
\* OpenAI or Blockfrost credential exits the process; setupDexterProviders() throws
\* without SEED_PHRASE and otherwise awaits the wallet
ModuleStart ==
  /\ main = "start"
  /\ main' = IF {"TAP_TOOLS_API_KEY", "OPENAI_API_KEY", "BLOCKFROST_PROJECT_ID"} \subseteq env
             THEN IF "SEED_PHRASE" \in env THEN "loadWallet" ELSE "failed"
             ELSE "exited"
  /\ UNCHANGED << standalone, CARDANO_ADDRESS, env, targetRatios, runs, ran, unscheduled >>

\* loop() is called and runs up to its first await, getTopTokens()
FirstAwait == [pc |-> "getTopTokens", idx |-> 0, ai |-> 0]

\* loop() has returned
Returned == [pc |-> "return", idx |-> 0, ai |-> 0]

\* await lucidProvider.loadWalletFromSeedPhrase(...) settles (part_000:340-352); when
\* it resolves mainLoop() goes on to `await loop()`, when it rejects mainLoop() rejects
\* and mainLoop().catch(console.error) logs it
WalletLoaded ==
  /\ main = "loadWallet"
  /\ \E ok \in BOOLEAN :
       IF ok
       THEN /\ main' = "firstLoop"
            /\ runs' = runs (+) SetToBag({FirstAwait})
            /\ ran' = ran \cup {"setup", "loop"}
       ELSE /\ main' = "failed"
            /\ UNCHANGED << runs, ran >>
  /\ UNCHANGED << standalone, CARDANO_ADDRESS, env, targetRatios, unscheduled >>

\* the interval timer of setInterval(loop, 60_000) fires and calls loop(), whatever
\* the earlier activations are doing
TimerFires ==
  /\ main = "armed"
  /\ BagCardinality(runs) < MaxRunning
  /\ runs' = runs (+) SetToBag({FirstAwait})
  /\ ran' = ran \cup {"loop"}
  /\ UNCHANGED << standalone, CARDANO_ADDRESS, env, targetRatios, main, unscheduled >>

\* the for..of over tokens after token r.idx: the next token's first call, or the end
TokenEnd(r) ==
  IF r.idx < NumTokens THEN [pc |-> "fetch", idx |-> r.idx + 1, ai |-> 0] ELSE Returned

\* where an activation can stand after the await it is suspended in has settled
\* (part_000:941-1069); every awaited call catches its own failure
NextPositions(r) ==
  CASE r.pc = "getTopTokens" ->
         IF NumTokens = 0 THEN {Returned}
         ELSE IF CARDANO_ADDRESS # "" THEN {[pc |-> "addressInfo", idx |-> 0, ai |-> 0]}
         ELSE {[pc |-> "fetch", idx |-> 1, ai |-> 0]}
    [] r.pc = "addressInfo" ->
         {[pc |-> "fetch", idx |-> 1, ai |-> 0]} \cup
         {[pc |-> "walletPrices", idx |-> 0, ai |-> n] : n \in 0..MaxAssets}
    [] r.pc = "walletPrices" ->
         IF r.ai = 0 THEN {[pc |-> "fetch", idx |-> 1, ai |-> 0]}
         ELSE {[pc |-> "valueAsset", idx |-> 0, ai |-> r.ai]}
    [] r.pc = "valueAsset" ->
         IF r.ai > 1 THEN {[pc |-> "valueAsset", idx |-> 0, ai |-> r.ai - 1]}
         ELSE {[pc |-> "fetch", idx |-> 1, ai |-> 0]}
    [] r.pc = "fetch" -> {[pc |-> "decide", idx |-> r.idx, ai |-> 0]}
    [] r.pc = "decide" -> {TokenEnd(r), [pc |-> "execute", idx |-> r.idx, ai |-> 0]}
    [] r.pc = "execute" -> {TokenEnd(r)}
    [] OTHER -> {}

\* the stretch after an await that can throw: the synchronous code between the
\* decision and the swap (decision.trade of null, toUpperCase of a missing direction)
CanThrow(r) == r.pc = "decide"

\* mainLoop() after an activation has returned: the first one is awaited and
\* setInterval follows it in the same turn; later ones are the timer's
AfterReturn == IF main = "firstLoop" THEN "armed" ELSE main

\* the activation at r moves on to q
MoveOn(r, q) ==
  IF q = Returned THEN runs (-) SetToBag({r})
  ELSE (runs (-) SetToBag({r})) (+) SetToBag({q})

\* LoopStep with no try/catch around the body of loop(): a throw rejects the promise
\* of loop(), which rejects mainLoop() during the first activation and is an
\* unhandled rejection afterwards
LoopStepPropagates(r) ==
  /\ BagIn(r, runs)
  /\ \/ \E q \in NextPositions(r) :
          /\ runs' = MoveOn(r, q)
          /\ ran' = IF q = Returned THEN ran \cup {"returned"} ELSE ran
          /\ main' = IF q = Returned THEN AfterReturn ELSE main
     \/ /\ CanThrow(r)
        /\ runs' = MoveOn(r, Returned)
        /\ ran' = ran \cup {"rejected"}
        /\ main' = "crashed"
  /\ UNCHANGED << standalone, CARDANO_ADDRESS, env, targetRatios, unscheduled >>

\* the await of an activation suspended at r settles and loop() runs on to its next
\* await or to its end; a throw is caught by the try/catch around the body
\* (part_000:939, 1071-1073) and loop() returns normally
LoopStep(r) ==
  /\ BagIn(r, runs)
  /\ \/ \E q \in NextPositions(r) :
          /\ runs' = MoveOn(r, q)
          /\ ran' = IF q = Returned THEN ran \cup {"returned"} ELSE ran
          /\ main' = IF q = Returned THEN AfterReturn ELSE main
     \/ /\ CanThrow(r)
        /\ runs' = MoveOn(r, Returned)
        /\ ran' = ran \cup {"caught", "returned"}
        /\ main' = AfterReturn
  /\ UNCHANGED << standalone, CARDANO_ADDRESS, env, targetRatios, unscheduled >>

\* some activation in flight takes its next step
AnyLoopStep == \E r \in BagToSet(runs) : LoopStep(r)

NextSchedule ==
  \/ ModuleStart
  \/ WalletLoaded
  \/ TimerFires
  \/ AnyLoopStep

SpecSchedule == InitSchedule /\ [][NextSchedule]_vars

\* every pending await settles and an armed timer keeps firing
FairSchedule ==
  /\ SpecSchedule
  /\ WF_vars(TimerFires)
  /\ WF_vars(AnyLoopStep)

(***************************************************************************)
(* One activation of loop() and the swap transactions it starts            *)
(* (SpecSwaps).  executeDexSwap (part_000:752-814) awaits the pool lookup   *)
(* and the decimals, calls swapReq.submit(), registers the handlers of the  *)
(* transaction's events and returns; the transaction is built, signed and   *)
(* submitted afterwards, and then its onSubmitted or onError handler runs.  *)
(***************************************************************************)

\* no swap transaction started for any token
NoTransactions == [i \in 1..NumTokens |-> "none"]

InitSwaps ==
  /\ CARDANO_ADDRESS \in {"", "addr1"}
  /\ pc = "idle"
  /\ FreshLocals
  /\ call = NoSized
  /\ between = NoSized
  /\ again = NoAgain
  /\ StartupDone
  /\ RatioSumsIdle
  /\ decimalsCall = NoDecimalsCall
  /\ topTokensCall = NoTopTokensCall
  /\ pipeline = FirstAwait
  /\ transactions = NoTransactions

\* the await at which loop() stands settles and loop() runs on to its next await
\* (part_000:941-1069); when it was suspended in executeDexSwap, that call either
\* ended early (no pool, or an error caught inside) or reached swapReq.submit(),
\* which starts the transaction and returns at once
SwapStep ==
  /\ \E q \in NextPositions(pipeline), reached \in BOOLEAN :
       /\ pipeline' = q
       /\ transactions' =
            IF pipeline.pc = "execute" /\ reached
            THEN [transactions EXCEPT ![pipeline.idx] = "pending"]
            ELSE transactions
  /\ UNCHANGED << program, ratioSums, decimalsCall, topTokensCall >>

\* a transaction that was started reports onSubmitted or onError (part_000:800-808)
TxEvent ==
  /\ \E i \in 1..NumTokens, event \in {"submitted", "error"} :
       /\ transactions[i] = "pending"
       /\ transactions' = [transactions EXCEPT ![i] = event]
  /\ UNCHANGED << program, ratioSums, decimalsCall, topTokensCall, pipeline >>

NextSwaps ==
  \/ SwapStep
  \/ TxEvent

SpecSwaps == InitSwaps /\ [][NextSwaps]_vars

\* roomLeft of a recorded sizer call: targetRatios[category] * total - category value
RoomLeftOf(c) == RatioTimes(TARGET_RATIOS[c.category], c.totalAdaValue) - c.currentCategoryValue

Min3(a, b, c) == MathMin(MathMin(a, b), c)

IsBuy(c) == c.called /\ StrictEq(c.direction, Str("buy"))

(***************************************************************************)
(* Claims about the position sizer (SpecSizer)                             *)
(***************************************************************************)

\* C1 as stated: a buy returns an amount that is never negative and is at most
\* min(recommendedAda, roomLeft, userAdaBalance - 2).
C1_AsStated ==
  IsBuy(call) =>
    /\ call.result >= 0
    /\ call.result <= Min3(call.recommendedAda, RoomLeftOf(call), call.userAdaBalance - FeeReserve)

\* C1 amended: a buy returns an amount that is never negative and is at most
\* min(recommendedAda, max(0, roomLeft), max(0, userAdaBalance - 2)).
C1_BuyBounded ==
  IsBuy(call) =>
    /\ call.result >= 0
    /\ call.result <= Min3(call.recommendedAda, MathMax(0, RoomLeftOf(call)),
                           MathMax(0, call.userAdaBalance - FeeReserve))

\* C1 witness: a buy that went through, cut down below the recommended amount
C1_Witness ==
  IsBuy(call) /\ call.result > 0 /\ call.result < call.recommendedAda

\* C3: a buy with roomLeft > 0 returns min(recommendedAda, roomLeft, max(0, balance - 2))
\* when that is at least 1 ADA and 0 when it is below; every buy returns 0 or >= 1 ADA.
C3_BuyMinOrDust ==
  IsBuy(call) =>
    /\ call.result = 0 \/ call.result >= Ada(1)
    /\ RoomLeftOf(call) > 0 =>
         LET m == Min3(call.recommendedAda, RoomLeftOf(call),
                       MathMax(0, call.userAdaBalance - FeeReserve))
         IN  call.result = IF m >= Ada(1) THEN m ELSE 0

\* C3 witness: total 1000, defi (ratio 0.15) at 100, ADA 500, recommended 100: room 50,
\* result 50
C3_Witness ==
  /\ IsBuy(call)
  /\ call.category = "defi" /\ call.totalAdaValue = Ada(1000)
  /\ call.currentCategoryValue = Ada(100) /\ call.userAdaBalance = Ada(500)
  /\ call.recommendedAda = Ada(100)
  /\ call.result = Ada(50)

\* C4: a sell returns recommendedAda unchanged, whatever the category, the total, the
\* category value and the ADA balance are.
C4_SellUnchanged ==
  (call.called /\ StrictEq(call.direction, Str("sell"))) => call.result = call.recommendedAda

\* C4 witness: a sell in a category over its target with an empty ADA balance
C4_Witness ==
  /\ call.called /\ StrictEq(call.direction, Str("sell"))
  /\ RoomLeftOf(call) < 0 /\ call.userAdaBalance = 0
  /\ call.recommendedAda = Ada(200) /\ call.result = Ada(200)

(***************************************************************************)
(* Claims about the loop (Spec)                                            *)
(***************************************************************************)

\* the decision is a parsed JSON object (not yet requested: "none"; JSON null: "null")
IsObject(d) == d.kind = "object"

\* no order was sized and none was handed to the swap executor for the current token
NothingSizedOrSwapped == ~sized.called /\ ~swap.called

\* C2: when the category is at or over its target (category value >= ratio * total) the
\* sizer returns exactly 0 for a buy and no swap is submitted for that token.
C2_OverTargetBuyIsZero ==
  (IsBuy(sized) /\
   sized.currentCategoryValue >= RatioTimes(TARGET_RATIOS[sized.category], sized.totalAdaValue))
    => (sized.result = 0 /\ ~swap.called /\ pc = "tokenDone")

\* C2 witness: a buy of 50 ADA asked for a token whose category holds 100 ADA of a
\* 1100 ADA portfolio (cap 55 ADA), with 1000 ADA to spend
C2_Witness ==
  /\ IsBuy(sized) /\ pc = "tokenDone"
  /\ sized.currentCategoryValue = Ada(100) /\ sized.totalAdaValue = Ada(1100)
  /\ sized.userAdaBalance = Ada(1000) /\ sized.recommendedAda = Ada(50)
  /\ sized.result = 0

\* C5: a decision whose confidence is below 0.6 is rejected whatever its direction and
\* size: nothing is sized and the swap executor is not called for that token.
C5_LowConfidenceRejected ==
  (IsObject(decision) /\ decision.confidence.t = "number"
     /\ decision.confidence.n < ConfidenceThreshold)
    => (NothingSizedOrSwapped /\ pc \in {"gate", "tokenDone"} /\ thrown = "")

\* C5 witness: trade 'true', buy, confidence 0.4, with a funded wallet: skipped
C5_Witness ==
  /\ pc = "tokenDone"
  /\ decision.trade = Str("true") /\ decision.direction = Str("buy")
  /\ decision.confidence = Num(40) /\ decision.size = Num(Ada(50))
  /\ ~addressInfo.isNull /\ categoryValues.ada = Ada(1000)
  /\ NothingSizedOrSwapped

\* the trade flag says false, as the string 'false' or as the JSON boolean false
TradeFlagFalse(d) == IsObject(d) /\ d.trade \in {Str("false"), Bool(FALSE)}

\* C6: a decision whose trade flag is false, in whatever form it is encoded, is rejected:
\* nothing is sized and the swap executor is not called for that token.
C6_TradeFalseRejected ==
  TradeFlagFalse(decision)
    => (NothingSizedOrSwapped /\ pc \in {"gate", "tokenDone"} /\ thrown = "")

\* a well-formed recommendation: an object with trade 'true'|'false', direction
\* 'buy'|'sell', and numbers for confidence and size (interface LlmDecision)
WellFormed(d) ==
  /\ IsObject(d)
  /\ d.trade \in {Str("true"), Str("false")}
  /\ d.direction \in {Str("buy"), Str("sell")}
  /\ d.confidence.t = "number"
  /\ d.size.t = "number"

\* C7: a reply that is not a well-formed recommendation is treated as trade=false with
\* confidence 0: nothing is sized or executed for the token and nothing is thrown.
C7_MalformedRejected ==
  (decision = DefaultDecision \/ (decision.kind # "none" /\ ~WellFormed(decision)))
    => (NothingSizedOrSwapped /\ pc \in {"gate", "tokenDone"} /\ thrown = "")

\* C8: every call of the swap executor is made with an amount of at least 1 ADA.
C8_SwapAtLeastOneAda ==
  swap.called => (swap.quantityAda # NaN /\ swap.quantityAda >= Ada(1))

\* C9: a failure while processing one token skips only that token: when the iteration
\* ends, every token of its list has been evaluated.
C9_AllTokensEvaluated ==
  pc = "done" => evaluated = Len(tokens)

TokenPcs == {"fetch", "decide", "gate", "execute", "tokenDone"}

\* targetRatios[c] * totalAdaValue of the iteration's snapshot
CategoryCap(c) == RatioTimes(TARGET_RATIOS[c], totalAdaValue)

\* C11: with an address configured, an iteration whose address-info lookup failed
\* (returned null) evaluates no token, sizes nothing and executes nothing; and a swap
\* that no sizer call preceded happens only when no address is configured.
C11_FailedValuationEndsIteration ==
  /\ (CARDANO_ADDRESS # "" /\ addressFetches > 0 /\ addressInfo.isNull)
       => (evaluated = 0 /\ NothingSizedOrSwapped)
  /\ (swap.called /\ ~sized.called) => CARDANO_ADDRESS = ""

\* C16: with portfolio constraints active, for every category that had a buy approved
\* in this iteration, the approved buy amounts handed to executeDexSwap plus the
\* category's value in the snapshot do not exceed targetRatios[category] * total.
C16_CategoryBuysWithinCap ==
  ~addressInfo.isNull =>
    \A c \in Category :
      approved[c] # 0 => Le(Plus(approved[c], categoryValues[c]), CategoryCap(c))

\* C17: in an iteration with an address configured, taptoolsGetAddressInfo is called
\* exactly once and the valuation block is entered at most once (exactly once when
\* the wallet was returned), before the first token is processed, and neither happens
\* again while the tokens are processed.
C17_ValuationOncePerIteration ==
  /\ addressFetches <= 1
  /\ valuations <= 1
  /\ pc \in {"walletPrices", "valueAsset"} => (idx = 0 /\ evaluated = 0)
  /\ (CARDANO_ADDRESS # "" /\ (pc \in TokenPcs \/ (pc = "done" /\ evaluated > 0)))
       => /\ addressFetches = 1
          /\ valuations = IF addressInfo.isNull THEN 0 ELSE 1

\* C17 witness: an iteration with an address configured has evaluated all six tokens
\* after one address-info fetch and one valuation
C17_Witness ==
  /\ CARDANO_ADDRESS # "" /\ pc = "done" /\ thrown = ""
  /\ evaluated = 6 /\ addressFetches = 1 /\ valuations = 1

\* C18: no step of the per-token loop changes categoryValues or totalAdaValue, and
\* every sizer call of the iteration is made with the values of that snapshot.
C18_SnapshotFrozenInTokenLoop ==
  /\ [](sized.called =>
          /\ sized.totalAdaValue = totalAdaValue
          /\ sized.currentCategoryValue = categoryValues[sized.category]
          /\ sized.userAdaBalance = categoryValues.ada)
  /\ [][(pc \in TokenPcs) => UNCHANGED << categoryValues, totalAdaValue >>]_vars

\* C18 witness: a later token is sized after a buy of the same category was approved
\* and handed to executeDexSwap earlier in the iteration
C18_Witness ==
  /\ sized.called /\ ~swap.called /\ idx > 1
  /\ approved[sized.category] >= Ada(1)

IterationBegins == BagIn(FirstAwait, runs)

\* mainLoop() got as far as calling loop()
ReachedLoop == main \in {"firstLoop", "armed"}

\* C12: at most one activation of loop() is in flight at any time: the timer never
\* starts an iteration while an earlier one is still suspended in an await.
C12_NoOverlap ==
  BagCardinality(runs) <= 1

\* C13: once startup has succeeded, loop() never rejects, whatever happened in the
\* iteration; once an iteration has returned the timer is armed, an armed timer stays
\* armed, the first iteration leads to the timer being armed, and from every state
\* with the timer armed a further iteration begins.
C13_ScheduleSurvivesIterations ==
  /\ []("rejected" \notin ran /\ main # "crashed")
  /\ []("returned" \in ran => main = "armed")
  /\ [][(main = "armed") => (main' = "armed")]_vars
  /\ (main = "firstLoop") ~> (main = "armed")
  /\ (main = "armed") ~> IterationBegins

\* C13 witness: an iteration ended in the catch block of loop(), the timer is armed
\* and a further iteration has begun
C13_Witness ==
  "caught" \in ran /\ main = "armed" /\ IterationBegins

\* C14: with target ratios that do not sum to 1, startup never gets to loop(): no
\* activation is started and no call of an iteration is issued.
C14_BadRatiosNeverRun ==
  RatioSum(targetRatios) # 100 => (~ReachedLoop /\ runs = NoRuns /\ ran = {})

\* C15: an iteration runs, and the timer is armed, only with all four credentials
\* present and after provider and wallet setup completed; once the module has exited
\* or mainLoop() has failed, nothing runs and that never changes.
C15_NoIterationWithoutStartup ==
  /\ []((ReachedLoop \/ runs # NoRuns \/ ran # {}) => (env = Credentials /\ "setup" \in ran))
  /\ [](main \in {"exited", "failed"} => (runs = NoRuns /\ ran = {}))
  /\ [][(main \in {"exited", "failed"}) => (main' = main)]_vars

\* C15 witness: every credential is present, the wallet failed to load, and mainLoop()
\* has ended without an iteration
C15_Witness ==
  main = "failed" /\ env = Credentials /\ runs = NoRuns /\ ran = {}

(***************************************************************************)
(* The shipped target ratios (SpecRatios)                                  *)
(***************************************************************************)

\* every ratio of the configuration has been added
RatiosSummed == NotSummed = {}

\* the doubles next to 1: 1 - 2^-53 and 1 + 2^-52
BelowOne == << 32640, 32767, 32767, 32767, 0 >>

AboveOne == << 256, 0, 0, 0, 1 >>

OwnConfig(unit) ==
  IF getTokenConfig(unit) # 0 THEN TRADING_TOKENS[getTokenConfig(unit)] ELSE getTokenInfo(unit)

\* amount is a number within the bounds of the configuration of unit
WithinOwnBounds(amount, unit) ==
  /\ amount # NaN
  /\ Le(OrElse(OwnConfig(unit).minTradeSize, DefaultMinSize), amount)
  /\ Le(amount, OrElse(OwnConfig(unit).maxTradeSize, DefaultMaxSize))

\* C22: the recommended size of a token that passed the gate, as handed to the sizer
\* or (with no wallet data) straight to executeDexSwap, lies within the bounds of the
\* token's configuration, whatever size the decision states.
C22_RecommendedWithinBounds ==
  /\ sized.called => WithinOwnBounds(sized.recommendedAda, tokens[idx].unit)
  /\ (pc = "execute" /\ ~sized.called) => WithinOwnBounds(finalAmount, tokens[idx].unit)

(***************************************************************************)
(* The valuation, holding by holding (Spec)                                *)
(***************************************************************************)

\* the lookup of getAssetDecimals throws
DecimalsLookupFails == [kind |-> "throws", decimals |-> 0]

\* the holding the valuation is at
CurrentAsset == addressInfo.assets[ai]

\* the valuation goes on to the next holding, or ends, with nothing thrown
ValuationGoesOn ==
  /\ thrown' = thrown
  /\ pc' = IF ai < Len(addressInfo.assets) THEN "valueAsset" ELSE "fetch"

\* C23: the pass over a holding whose price is missing, or whose decimals lookup
\* throws, leaves every category value and the total as they were, and the valuation
\* goes on with the next holding.
C23_FailedLookupContributesZero ==
  [][ValueAssetWith(DecimalsLookupFails)
       => (ValuationGoesOn /\ UNCHANGED << categoryValues, totalAdaValue >>)]_vars

(***************************************************************************)
(* The valuation of wallets of every kind (SpecValuation)                  *)
(***************************************************************************)

\* the ADA balance addressInfo states: parseInt(lovelace || '0') / 1_000_000
WalletAda ==
  LovelaceToAda(ParseInt(IF addressInfo.lovelace # << >> THEN addressInfo.lovelace ELSE << 0 >>))

\* C24: the pass over a holding whose price is missing, zero or negative changes no
\* category value and not the total; and once the valuation has begun, category 'ada'
\* holds the wallet's ADA balance and the total holds it once, next to the values of
\* the other categories.
C24_UnpricedSkippedAdaOnce ==
  /\ [][(pc = "valueAsset" /\ tokenPrices[CurrentAsset.unit] <= 0)
          => UNCHANGED << categoryValues, totalAdaValue >>]_vars
  /\ [](valuations > 0 =>
          /\ categoryValues.ada = WalletAda
          /\ totalAdaValue = WalletAda + SumValues(categoryValues, Category \ {"ada"}))

\* C24 witness: of two holdings the one with a negative price was skipped and the
\* other one was counted, next to an ADA balance
C24_Witness ==
  /\ pc = "fetch" /\ valuations = 1 /\ Len(addressInfo.assets) = 2
  /\ tokenPrices[addressInfo.assets[1].unit] < 0
  /\ tokenPrices[addressInfo.assets[2].unit] > 0
  /\ categoryValues.ada > 0
  /\ totalAdaValue > categoryValues.ada

\* the category a holding of this unit belongs to: the one of its entry in the trading
\* list, else the one classifyToken gives
HoldingCategory(unit) ==
  IF getTokenConfig(unit) # 0 THEN TRADING_TOKENS[getTokenConfig(unit)].category
  ELSE classifyToken(unit)

\* C25: the pass over a holding with a price above 0 credits exactly one category,
\* the one of the holding's entry in the trading list or, for a unit not listed, the
\* one classifyToken returns.
C25_CreditedToClassifiedCategory ==
  [][(pc = "valueAsset" /\ tokenPrices[CurrentAsset.unit] > 0)
       => {c \in Category : categoryValues'[c] # categoryValues[c]}
            = {HoldingCategory(CurrentAsset.unit)}]_vars

(***************************************************************************)
(* The decimals of a holding (SpecDecimals)                                *)
(***************************************************************************)

\* C26: the decimals used for a holding are those its TokenConfig states, 0 included,
\* without a call of getAssetDecimals; the lookup is made only for a TokenConfig
\* without a decimals entry (or no TokenConfig).
C26_ConfiguredDecimalsUsed ==
  decimalsCall.called =>
    IF decimalsCall.cfgDecimals = Undefined
    THEN decimalsCall.lookedUp
    ELSE /\ ~decimalsCall.lookedUp
         /\ decimalsCall.decimals = ToNumber(decimalsCall.cfgDecimals)

(***************************************************************************)
(* The token universe (SpecTopTokens)                                      *)
(***************************************************************************)

\* the entries of seq from position i on whose unit no earlier entry of seq has
RECURSIVE FirstOccurrences(_, _)
FirstOccurrences(seq, i) ==
  IF i > Len(seq) THEN << >>
  ELSE (IF \A j \in 1..(i - 1) : seq[j].unit # seq[i].unit THEN << seq[i] >> ELSE << >>)
         \o FirstOccurrences(seq, i + 1)

\* ticker and unit of every entry, in order
Named(seq) == [i \in 1..Len(seq) |-> << seq[i].ticker, seq[i].unit >>]

\* the tokens the source mode of the call asks for: the configured ones in
\* configuration order, then the top-volume ones in the order returned
Candidates ==
  (IF topTokensCall.source \in {"PREDEFINED_LIST", "COMBINED"}
   THEN getAllTradingTokens ELSE << >>)
    \o (IF topTokensCall.source \in {"TOP_VOLUME", "COMBINED"}
        THEN topTokensCall.topVolumeTokens ELSE << >>)

\* C27: what getTopTokens returns has no unit twice and consists, in order, of the
\* first occurrence of every unit among the configured tokens followed by the
\* top-volume tokens, as far as the source mode includes them.
C27_UniverseDeduplicatedInOrder ==
  topTokensCall.called =>
    /\ \A i, j \in 1..Len(topTokensCall.result) :
         topTokensCall.result[i].unit = topTokensCall.result[j].unit => i = j
    /\ Named(topTokensCall.result) = Named(FirstOccurrences(Candidates, 1))

\* C27 witness: in mode COMBINED the top-volume response names a listed unit and
\* repeats an unlisted one under another ticker; one token was added to the six
\* configured ones
C27_Witness ==
  /\ topTokensCall.called /\ topTokensCall.source = "COMBINED"
  /\ Named(topTokensCall.topVolumeTokens)
       = << << "SNEK", "unit_SNEK" >>, << "X", "unit_X" >>, << "X2", "unit_X" >> >>
  /\ Len(topTokensCall.result) = 7
  /\ topTokensCall.result[7].ticker = "X"

(***************************************************************************)
(* Tokens one at a time (SpecSwaps)                                        *)
(***************************************************************************)

\* C28: while loop() works on a token, or has returned, no swap transaction of an
\* earlier token of the iteration is still waiting for its onSubmitted or onError
\* event; and the tokens are taken in list order, one step at a time.
C28_TokenPipelineFinishedBeforeNext ==
  /\ \A i \in 1..NumTokens :
       transactions[i] = "pending" => (pipeline.pc # "return" /\ pipeline.idx = i)
  /\ \A i \in 1..NumTokens :
       transactions[i] # "none" => i <= pipeline.idx \/ pipeline.pc = "return"

(***************************************************************************)
(* The configuration a token is sized with (Spec)                          *)
(***************************************************************************)

\* C29: the category handed to the sizer for a token of the trading list is the one
\* of the token's own entry in the list, and so are the bounds its size is clamped to.
C29_SizedWithOwnEntry ==
  (sized.called /\ getTokenConfig(tokens[idx].unit) # 0) =>
    /\ sized.category = OwnConfig(tokens[idx].unit).category
    /\ getTokenInfo(tokens[idx].unit).minTradeSize = OwnConfig(tokens[idx].unit).minTradeSize
    /\ getTokenInfo(tokens[idx].unit).maxTradeSize = OwnConfig(tokens[idx].unit).maxTradeSize

(***************************************************************************)
(* An iteration with no address configured (Spec)                          *)
(***************************************************************************)

\* the decision of the current token has passed both gate tests
PassedGate ==
  IsObject(decision) /\ ~GateRejects(decision) /\ pc \in {"execute", "tokenDone", "done"}

\* C30: with no address configured the iteration looks up no address info, values
\* nothing and never calls the sizer, and every decision that passed the gate is
\* handed to executeDexSwap with its clamped recommended size and its direction.
C30_NoAddressExecutesRecommended ==
  CARDANO_ADDRESS = "" =>
    /\ addressFetches = 0 /\ valuations = 0 /\ ~sized.called
    /\ categoryValues = ZeroCategoryValues /\ totalAdaValue = 0
    /\ PassedGate =>
         /\ finalAmount = RecommendedSize(decision, getTokenInfo(tokens[idx].unit))
         /\ pc \in {"tokenDone", "done"} =>
              /\ swap.called
              /\ swap.quantityAda = finalAmount
              /\ swap.direction = decision.direction

====
